---- MODULE Spec2Model ----
(***************************************************************************)
(* Checkpoint-driven scraping pipeline of the Hero e-catalogue scraper:    *)
(* ScrapingPipeline (scraper/pipeline.py) driving DataStore                *)
(* (scraper/store.py): SQLite checkpoints, the canonical parts table and   *)
(* the CSV shard, with the catalogue site as the external collaborator.    *)
(***************************************************************************)
EXTENDS Integers, Sequences, FiniteSets, TLC

(***************************************************************************)
(* Bounds of the model                                                     *)
(***************************************************************************)
MaxRuns == 2          \* pipeline runs started in one behaviour
\* events of the environment in one behaviour: a kill of the process, an
\* exception raised by a collaborator or a write, a change of the site
MaxDisturbances == 1
MaxVehicles == 61     \* vehicles of the long catalogue listing
MaxItems == 3         \* rows of the catalogue table read by collect_vehicles

(***************************************************************************)
(* Values                                                                  *)
(***************************************************************************)
VehicleIds == {"v1", "v2"}
\* a group id stands for the triple (group_type, table_no, group_code)
GroupIds == {"E1", "F1", "F2"}
Keys == VehicleIds \X GroupIds

NULL == "NULL"
NullInt == 0 - 1

\* pandas' default NA strings: read_csv turns them into NaN even with
\* dtype=str, and fillna('') then turns them into ''
NaValues ==
    {"", "#N/A", "#N/A N/A", "#NA", "-1.#IND", "-1.#QNAN", "-NaN", "-nan",
     "1.#IND", "1.#QNAN", "<NA>", "N/A", "NA", "NULL", "NaN", "None", "n/a",
     "nan", "null"}

\* ref_no strings of the model, in SQLite BINARY collation order
RefNos == <<"", "1", "2", "A">>

Row(r, p, d) == [ref_no |-> r, part_no |-> p, description |-> d]

\* the parts tables collect_parts can return for a group
RowChoices ==
    [k \in Keys |->
        CASE k = << "v1", "E1" >> ->
                { << Row("1", "P1", "D1"), Row("2", "P2", "NA") >>,
                  << Row("1", "P1", "D2") >>,
                  <<>> }
          [] k = << "v1", "F1" >> -> { <<>>, << Row("2", "P3", "D1") >> }
          [] k = << "v1", "F2" >> ->
                { << Row("", "P4", "D1") >>,
                  \* a lettered reference next to numbered ones
                  << Row("A", "P5", "D1"), Row("1", "P6", "D1") >>,
                  \* part numbers "N/A" and blank under one reference
                  << Row("2", "N/A", "D1"), Row("2", "", "D1") >> }
          [] OTHER -> { << Row("", "P4", "D1") >> }]

\* the group lists collect_indices can return for a vehicle
GroupListChoices ==
    [v \in VehicleIds |->
        IF v = "v1" THEN { <<"E1", "F1", "F2">> }
        ELSE { <<"E1">>, <<>>, <<"E1", "E1">> }]

\* the descriptions the site may show for a group
GroupDescChoices ==
    [k \in Keys |-> IF k = << "v1", "F2" >> THEN {"G1", "G2"} ELSE {"G1"}]

\* the vehicle listing returned by collect_vehicles
Listing == <<"v1", "v2">>

(***************************************************************************)
(* State                                                                   *)
(***************************************************************************)
VARIABLES
    \* --- persistent: SQLite database and CSV shard (survive a kill) ---
    checkpoints,   \* checkpoints table: key -> record (status "absent" = no row)
    parts,         \* parts table, in rowid order
    parts_pages,   \* parts_pages table: key -> image_path or NULL (no row)
    vehicles,      \* vehicles table: set of vehicle_id
    csv,           \* rows of parts_master.csv, in file order (<<>> = no file)
    parquet,       \* rows of parts_master.parquet (<<>> = no file)
    milestones,    \* milestone records of the store: << batch, vehicle >>
    \* --- the catalogue site (external collaborator) ---
    site,          \* [groups: vehicle -> group list, rows: key -> rows]
    \* --- one run of ScrapingPipeline (in memory, lost by a kill) ---
    pc,            \* position of the run
    force_reprocess, save_parquet,
    vlist, vidx,   \* vehicles of the listing, index of the current one
    indices, j,    \* groups discovered for the current vehicle, current index
    cur,           \* result of collect_parts of the current attempt
    stats,         \* run statistics
    vehicles_processed, milestone_batch,
    exit_code,     \* result of the last run: "none", 0, 1 or "killed"
    \* --- bookkeeping of the model ---
    runs, disturbances,
    hist           \* history of the run, read only by properties

vars == << checkpoints, parts, parts_pages, vehicles, csv, parquet,
           milestones, site, pc, force_reprocess, save_parquet, vlist, vidx, indices, j, cur, stats,
           vehicles_processed, milestone_batch, exit_code, runs, disturbances, hist >>

persistent == << checkpoints, parts, parts_pages, vehicles, csv, parquet >>
budget == << runs, disturbances >>

(***************************************************************************)
(* Checkpoint store (store.py, CHECKPOINTS)                                *)
(***************************************************************************)
Absent == [status |-> "absent", row_count |-> NullInt, image_saved |-> 0,
           last_error |-> NULL]

\* SELECT status FROM checkpoints WHERE ...; None when there is no row
checkpoint_status(key) ==
    IF checkpoints[key].status = "absent" THEN "None"
    ELSE checkpoints[key].status

\* faulty variant: the done record always says the image was saved
checkpoint_mark_done_image_set(key, row_count, image_saved) ==
    [checkpoints EXCEPT ![key] =
        [status |-> "done", row_count |-> row_count, image_saved |-> 1,
         last_error |-> NULL]]

\* INSERT OR REPLACE ... VALUES (..., 'done', row_count, int(image_saved), NULL, now)
checkpoint_mark_done(key, row_count, image_saved) ==
    [checkpoints EXCEPT ![key] =
        [status |-> "done", row_count |-> row_count,
         image_saved |-> IF image_saved THEN 1 ELSE 0, last_error |-> NULL]]

\* INSERT OR REPLACE ... VALUES (..., 'error', NULL, 0, error, now)
checkpoint_mark_error(key, error) ==
    [checkpoints EXCEPT ![key] =
        [status |-> "error", row_count |-> NullInt, image_saved |-> 0,
         last_error |-> error]]

\* faulty variant: an UPDATE of the status that keeps the other columns
checkpoint_mark_pending_merged(key) ==
    [checkpoints EXCEPT ![key].status = "pending"]

\* INSERT OR REPLACE ... VALUES (..., 'pending', NULL, 0, NULL, now)
checkpoint_mark_pending(key) ==
    [checkpoints EXCEPT ![key] =
        [status |-> "pending", row_count |-> NullInt, image_saved |-> 0,
         last_error |-> NULL]]

\* DataStore defines neither is_vehicle_complete nor mark_milestone: the
\* attribute lookup on the store raises AttributeError
DataStoreMethods ==
    {"checkpoint_status", "checkpoint_mark_done", "checkpoint_mark_error",
     "checkpoint_mark_pending", "save_vehicle", "get_vehicles",
     "save_parts_page", "upsert_parts_page", "upsert_part_rows",
     "_fetch_group_df", "_overwrite_group_in_csv",
     "_overwrite_group_in_parquet", "append_parts_rows",
     "get_checkpoint_stats", "write_parts_csv", "write_parts_parquet",
     "convert_parts_to_dict_list"}

hasattr(name) == name \in DataStoreMethods

(***************************************************************************)
(* Canonical store (store.py, UPSERT PARTS & PAGES)                        *)
(***************************************************************************)
\* dict rows built in memory for a group: the group's identity, the fields
\* of each extracted row and the group description the discovery returned
\* (vehicle_name and model_code are taken from the Vehicle object the same
\* way and follow group_desc everywhere below)
convert_parts_to_dict_list(key, part_rows) ==
    [i \in 1..Len(part_rows) |->
        [vehicle_id |-> key[1], group |-> key[2],
         ref_no |-> part_rows[i].ref_no, part_no |-> part_rows[i].part_no,
         description |-> part_rows[i].description,
         group_desc |-> site.group_desc[key]]]

\* the columns the INSERT of upsert_part_rows binds: group_desc,
\* vehicle_name and model_code are not among them
StoredColumns(d) ==
    [vehicle_id |-> d.vehicle_id, group |-> d.group, ref_no |-> d.ref_no,
     part_no |-> d.part_no, description |-> d.description]

NaturalKey(d) == << d.vehicle_id, d.group, d.ref_no, d.part_no >>
GroupKey(d) == << d.vehicle_id, d.group >>

\* faulty variant: a plain INSERT, without the ON CONFLICT clause
UpsertOneInsertOnly(tbl, d) == Append(tbl, StoredColumns(d))

\* INSERT ... ON CONFLICT(natural key) DO UPDATE SET <mutable fields>
UpsertOne(tbl, d) ==
    IF \E i \in 1..Len(tbl) : NaturalKey(tbl[i]) = NaturalKey(d)
    THEN [i \in 1..Len(tbl) |->
            IF NaturalKey(tbl[i]) = NaturalKey(d)
            THEN [tbl[i] EXCEPT !.description = d.description]
            ELSE tbl[i]]
    ELSE Append(tbl, StoredColumns(d))

RECURSIVE upsert_part_rows(_, _)
upsert_part_rows(tbl, dict_rows) ==
    IF dict_rows = <<>> THEN tbl
    ELSE upsert_part_rows(UpsertOne(tbl, Head(dict_rows)), Tail(dict_rows))

\* INSERT ... ON CONFLICT(group key) DO UPDATE: image_path or ''
upsert_parts_page(pages, key, image_saved) ==
    [pages EXCEPT ![key] = IF image_saved THEN "img" ELSE ""]

(***************************************************************************)
(* Materializer (store.py, CSV group-scoped write)                         *)
(***************************************************************************)
RefRank(ref) == CHOOSE i \in 1..Len(RefNos) : RefNos[i] = ref

\* CAST(NULLIF(ref_no, '') AS INT): NULL for '', the leading integer of the
\* text otherwise, 0 when the text has no leading digits
CastInt(ref) ==
    CASE ref = "" -> NullInt
      [] ref = "1" -> 1
      [] ref = "2" -> 2
      [] OTHER -> 0

\* ORDER BY CAST(NULLIF(ref_no, '') AS INT) NULLS LAST, ref_no
OrderedBefore(a, b) ==
    LET na == (a.ref_no = "")
        nb == (b.ref_no = "")
    IN  IF na # nb THEN nb
        ELSE IF ~na /\ CastInt(a.ref_no) # CastInt(b.ref_no)
             THEN CastInt(a.ref_no) < CastInt(b.ref_no)
             ELSE RefRank(a.ref_no) < RefRank(b.ref_no)

\* stable insertion of d into the sorted sequence s
RECURSIVE InsertSorted(_, _)
InsertSorted(s, d) ==
    IF s = <<>> THEN << d >>
    ELSE IF OrderedBefore(d, Head(s)) THEN << d >> \o s
         ELSE << Head(s) >> \o InsertSorted(Tail(s), d)

RECURSIVE SortRows(_)
SortRows(s) ==
    IF s = <<>> THEN <<>>
    ELSE InsertSorted(SortRows(SubSeq(s, 1, Len(s) - 1)), s[Len(s)])

\* SELECT ... FROM parts WHERE <group key> ORDER BY ...
_fetch_group_df(tbl, key) ==
    LET IsGroup(d) == GroupKey(d) = key
    IN  SortRows(SelectSeq(tbl, IsGroup))

\* append_parts_rows: the frame read back from the table gets the columns
\* vehicle_name, model_code and group_desc from the first converted dict
EnrichedGroupDf(tbl, key, dict_rows) ==
    LET df == _fetch_group_df(tbl, key)
    IN  [i \in 1..Len(df) |->
            [vehicle_id |-> df[i].vehicle_id, group |-> df[i].group,
             ref_no |-> df[i].ref_no, part_no |-> df[i].part_no,
             description |-> df[i].description,
             group_desc |-> dict_rows[1].group_desc]]

NaFill(x) == IF x \in NaValues THEN "" ELSE x

\* pd.read_csv(CSV_OUTPUT, dtype=str).fillna('')
read_csv(file) ==
    [i \in 1..Len(file) |->
        [vehicle_id |-> NaFill(file[i].vehicle_id),
         group |-> NaFill(file[i].group),
         ref_no |-> NaFill(file[i].ref_no),
         part_no |-> NaFill(file[i].part_no),
         description |-> NaFill(file[i].description),
         group_desc |-> NaFill(file[i].group_desc)]]

\* faulty variant: the group's rows are appended without the filter
_append_group_to_csv(file, df_group) ==
    IF file # <<>> THEN read_csv(file) \o df_group ELSE df_group

\* drop the rows of df_group's group from the file, append df_group
_overwrite_group_in_csv(file, df_group) ==
    IF file # <<>> THEN
        LET existing == read_csv(file)
            Keep(d) == GroupKey(d) # GroupKey(df_group[1])
        IN  SelectSeq(existing, Keep) \o df_group
    ELSE df_group

\* pd.read_parquet keeps every value as written; a missing file makes the
\* read raise and the group is written alone
_overwrite_group_in_parquet(file, df_group) ==
    IF file # <<>> THEN
        LET Keep(d) == GroupKey(d) # GroupKey(df_group[1])
        IN  SelectSeq(file, Keep) \o df_group
    ELSE df_group

(***************************************************************************)
(* The catalogue site                                                      *)
(***************************************************************************)
Discovered(st) ==
    { k \in Keys : \E i \in 1..Len(st.groups[k[1]]) : st.groups[k[1]][i] = k[2] }

\* the site at the start: v1 with groups E1 (two rows), F1 (no row) and F2,
\* v2 with group E1
BaseSite ==
    [listing |-> Listing,
     groups |-> [v \in VehicleIds |->
                    IF v = "v1" THEN <<"E1", "F1", "F2">> ELSE <<"E1">>],
     rows |-> [k \in Keys |->
                  CASE k = << "v1", "E1" >> ->
                          << Row("1", "P1", "D1"), Row("2", "P2", "NA") >>
                    [] k = << "v1", "F1" >> -> <<>>
                    [] k \in { << "v1", "F2" >>, << "v2", "E1" >> } ->
                          << Row("", "P4", "D1") >>
                    [] OTHER -> <<>>],
     group_desc |-> [k \in Keys |-> "G1"]]

(***************************************************************************)
(* ScrapingPipeline (pipeline.py)                                          *)
(***************************************************************************)
NoResult == [rows |-> <<>>, image_saved |-> FALSE]

ZeroStats == [vehicles_seen |-> 0, groups_seen |-> 0, groups_done |-> 0,
              groups_skipped |-> 0, groups_failed |-> 0, parts_rows |-> 0,
              images_saved |-> 0]

\* self._milestone_every
milestone_every == 30

\* faulty variant: the pipeline reprocesses whatever the command line says
ForceFlagAlwaysSet(args_force) == TRUE

\* ScrapingPipeline(force_reprocess=args.force)
ForceFlag(args_force) == args_force

\* faulty variant: a done group is skipped even in a force run
SkipDoneIgnoringForce(status, force) == status = "done"

\* if status == "done" and not self.force_reprocess: skip
SkipDone(status, force) == status = "done" /\ ~force

\* config.MAX_CONCURRENT_GROUPS
MAX_CONCURRENT_GROUPS == 2

\* wrappers around the store
_checkpoint_status(key) ==
    IF hasattr("checkpoint_status") THEN checkpoint_status(key) ELSE "None"

\* faulty variant: the group loop does not mark the group pending
_checkpoint_mark_pending_dropped(key) == checkpoints

_checkpoint_mark_pending(key) ==
    IF hasattr("checkpoint_mark_pending") THEN checkpoint_mark_pending(key)
    ELSE checkpoints

\* faulty variant: the success path never writes the done record
_checkpoint_mark_done_dropped(key, row_count, image_saved) == checkpoints

_checkpoint_mark_done(key, row_count, image_saved) ==
    IF hasattr("checkpoint_mark_done")
    THEN checkpoint_mark_done(key, row_count, image_saved)
    ELSE checkpoints

\* faulty variant: the error handler leaves the checkpoint as it is
_checkpoint_mark_error_dropped(key, error) == checkpoints

_checkpoint_mark_error(key, error) ==
    IF hasattr("checkpoint_mark_error") THEN checkpoint_mark_error(key, error)
    ELSE checkpoints

\* faulty variant: one finally block, session.close() after browser.close()
\* in the same block
finally_block_flat(browser_close_raises) ==
    IF browser_close_raises
    THEN << [call |-> "browser.close", raised |-> TRUE] >>
    ELSE << [call |-> "browser.close", raised |-> FALSE],
            [call |-> "session.close", raised |-> FALSE] >>

\* the finally block of run(): "try: await browser.close() finally:
\* session.close()", as the calls it makes
finally_block(browser_close_raises) ==
    << [call |-> "browser.close", raised |-> browser_close_raises],
       [call |-> "session.close", raised |-> FALSE] >>

\* faulty variant: main() swallows the fatal error and ends normally
ExitCodeAlwaysZero(fatal) == 0

\* main(): sys.exit(1) after a fatal error, a normal return otherwise
ExitCode(fatal) == IF fatal THEN 1 ELSE 0

CurVehicle == vlist[vidx]
CurKey == << vlist[vidx], indices[j] >>

Running == pc \notin {"idle", "exited0", "exited1", "killed", "interrupted"}

\* between markPending and markDone / markError of the current group
InAttempt ==
    pc \in {"extract", "save_page", "upsert", "csv", "parquet", "mark_done"}

\* the store and the shards as a group attempt finds them
Snapshot ==
    [checkpoints |-> checkpoints, parts |-> parts,
     parts_pages |-> parts_pages, csv |-> csv, parquet |-> parquet]

NoSnapshot ==
    [checkpoints |-> [k \in Keys |-> Absent], parts |-> <<>>,
     parts_pages |-> <<>>, csv |-> <<>>, parquet |-> <<>>]

NoHist ==
    [force |-> FALSE, startCkpt |-> [k \in Keys |-> Absent],
     startParts |-> <<>>, startCsv |-> <<>>, attempted |-> {},
     looped |-> {}, gateDone |-> FALSE, outcome |-> <<>>,
     discFailed |-> FALSE, faulted |-> FALSE,
     nErrors |-> 0, killedIn |-> {},
     settled |-> FALSE, afterSettled |-> FALSE,
     extracted |-> [k \in Keys |-> <<>>],
     startVehicles |-> {}, discFailedV |-> {}, parquetRun |-> FALSE,
     wroteParquet |-> FALSE, discovered |-> <<>>, steps |-> <<>>, attemptStart |-> NoSnapshot, ckptRaised |-> {},
     released |-> <<>>, closeRaised |-> FALSE, markDoneRaised |-> {},
     twice |-> {}]

Init ==
    /\ checkpoints = [k \in Keys |-> Absent]
    /\ parts = <<>>
    /\ parts_pages = [k \in Keys |-> NULL]
    /\ vehicles = {}
    /\ csv = <<>>
    /\ parquet = <<>>
    /\ milestones = {}
    /\ site = BaseSite
    /\ pc = "idle"
    /\ force_reprocess = FALSE /\ save_parquet = FALSE
    /\ vlist = <<>> /\ vidx = 0
    /\ indices = <<>> /\ j = 0
    /\ cur = NoResult
    /\ stats = ZeroStats
    /\ vehicles_processed = 0 /\ milestone_batch = 0
    /\ exit_code = "none"
    /\ runs = 0 /\ disturbances = 0
    /\ hist = NoHist

\* python run.py [--force] [--parquet]: ScrapingPipeline.__init__ and the
\* head of run()
StartRun(args_force, args_parquet) ==
    /\ ~Running
    /\ runs < MaxRuns
    /\ runs' = runs + 1
    /\ pc' = "collect"
    /\ force_reprocess' = ForceFlag(args_force)
    /\ save_parquet' = args_parquet
    /\ vlist' = <<>> /\ vidx' = 0 /\ indices' = <<>> /\ j' = 0
    /\ cur' = NoResult
    /\ stats' = ZeroStats
    /\ vehicles_processed' = 0 /\ milestone_batch' = 0
    /\ exit_code' = "none"
    /\ hist' = [hist EXCEPT !.force = args_force, !.startCkpt = checkpoints,
                            !.startParts = parts, !.startCsv = csv,
                            !.attempted = {}, !.looped = {},
                            !.gateDone = FALSE, !.outcome = <<>>,
                            !.discFailed = FALSE, !.faulted = FALSE,
                            !.nErrors = 0, !.killedIn = {},
                            !.settled = FALSE, !.afterSettled = hist.settled,
                            !.startVehicles = vehicles, !.discFailedV = {},
                            !.parquetRun = args_parquet,
                            !.wroteParquet = FALSE,
                            !.discovered = <<>>, !.steps = <<>>,
                            !.attemptStart = NoSnapshot, !.ckptRaised = {},
                            !.released = <<>>, !.closeRaised = FALSE,
                            !.markDoneRaised = {},
                            !.twice = {}]
    /\ UNCHANGED << persistent, milestones, site, disturbances >>

\* _collect_vehicles: the listing is read and every vehicle saved
CollectVehicles ==
    /\ pc = "collect"
    /\ vlist' = site.listing
    /\ vehicles' = vehicles \cup { site.listing[i] : i \in 1..Len(site.listing) }
    /\ stats' = [stats EXCEPT !.vehicles_seen = Len(site.listing)]
    /\ vidx' = 1
    /\ pc' = "discover"
    /\ UNCHANGED << checkpoints, parts, parts_pages, csv, parquet, site,
                    force_reprocess, save_parquet, indices, j, cur, vehicles_processed,
                    milestone_batch, milestones, exit_code, budget, hist >>

\* collect_vehicles raises: run() propagates, main() exits with code 1
CollectVehiclesRaises ==
    /\ pc = "collect"
    /\ disturbances < MaxDisturbances
    /\ pc' = "exited1"
    /\ exit_code' = ExitCode(TRUE)
    /\ \E browser_close_raises \in BOOLEAN :
          /\ browser_close_raises => disturbances + 1 < MaxDisturbances
          /\ disturbances' =
                IF browser_close_raises THEN disturbances + 2
                ELSE disturbances + 1
          /\ hist' = [hist EXCEPT
                         !.faulted = TRUE,
                         !.released = finally_block(browser_close_raises),
                         !.closeRaised = browser_close_raises]
    /\ UNCHANGED << persistent, site, force_reprocess, save_parquet, vlist, vidx, indices,
                    j, cur, stats, vehicles_processed, milestone_batch, milestones, runs >>

\* faulty variant: a vehicle without groups is counted as a failed group
DiscoverCountsEmptyAsFailure ==
    /\ pc = "discover"
    /\ vidx <= Len(vlist)
    /\ indices' = site.groups[CurVehicle]
    /\ pc' = IF indices' = <<>> THEN "after_vehicle" ELSE "gate"
    /\ stats' = IF indices' = <<>>
                THEN [stats EXCEPT !.groups_failed = @ + 1] ELSE stats
    /\ hist' = [hist EXCEPT !.discovered = Append(@, CurVehicle)]
    /\ UNCHANGED << persistent, site, force_reprocess, save_parquet, vlist,
                    vidx, j, cur, vehicles_processed, milestone_batch,
                    milestones, exit_code, budget >>

\* faulty variant: without force, discovery is not invoked for a vehicle
\* whose groups are all done
DiscoverSkipsDoneVehicle ==
    /\ pc = "discover"
    /\ vidx <= Len(vlist)
    /\ LET groups == site.groups[CurVehicle]
           complete == /\ ~force_reprocess
                       /\ groups # <<>>
                       /\ \A i \in 1..Len(groups) :
                             checkpoints[<< CurVehicle, groups[i] >>].status
                                = "done"
       IN  IF complete
           THEN indices' = <<>> /\ pc' = "after_vehicle" /\ UNCHANGED hist
           ELSE /\ indices' = groups
                /\ pc' = IF groups = <<>> THEN "after_vehicle" ELSE "gate"
                /\ hist' = [hist EXCEPT !.discovered = Append(@, CurVehicle)]
    /\ UNCHANGED << persistent, site, force_reprocess, save_parquet, vlist,
                    vidx, j, cur, stats, vehicles_processed, milestone_batch,
                    milestones, exit_code, budget >>

\* collect_indices returns the groups of the current vehicle
Discover ==
    /\ pc = "discover"
    /\ vidx <= Len(vlist)
    /\ indices' = site.groups[CurVehicle]
    /\ pc' = IF indices' = <<>> THEN "after_vehicle" ELSE "gate"
    /\ hist' = [hist EXCEPT !.discovered = Append(@, CurVehicle)]
    /\ UNCHANGED << persistent, site, force_reprocess, save_parquet, vlist, vidx, j, cur,
                    stats, vehicles_processed, milestone_batch, milestones, exit_code,
                    budget >>

\* faulty variant: the exception of collect_indices ends the run
DiscoverRaisesAborts ==
    /\ pc = "discover"
    /\ vidx <= Len(vlist)
    /\ disturbances < MaxDisturbances
    /\ disturbances' = disturbances + 1
    /\ pc' = "exited1"
    /\ exit_code' = ExitCode(TRUE)
    /\ hist' = [hist EXCEPT !.discFailed = TRUE, !.faulted = TRUE,
                            !.discFailedV = @ \cup {CurVehicle},
                            !.discovered = Append(@, CurVehicle)]
    /\ UNCHANGED << persistent, site, force_reprocess, save_parquet, vlist,
                    vidx, indices, j, cur, stats, vehicles_processed,
                    milestone_batch, milestones, runs >>

\* collect_indices raises: caught at the vehicle level
DiscoverRaises ==
    /\ pc = "discover"
    /\ vidx <= Len(vlist)
    /\ disturbances < MaxDisturbances
    /\ disturbances' = disturbances + 1
    /\ indices' = <<>>
    /\ pc' = "after_vehicle"
    /\ hist' = [hist EXCEPT !.discFailed = TRUE, !.faulted = TRUE,
                            !.discFailedV = @ \cup {CurVehicle},
                            !.discovered = Append(@, CurVehicle)]
    /\ UNCHANGED << persistent, site, force_reprocess, save_parquet, vlist, vidx, j, cur,
                    stats, vehicles_processed, milestone_batch, milestones, exit_code, runs >>

AllDoneNow ==
    \A i \in 1..Len(indices) :
        checkpoints[<< CurVehicle, indices[i] >>].status = "done"

\* faulty variant: the exception of the gate moves on to the next vehicle
\* without counting the current one
VehicleGateSkipsCount ==
    /\ pc = "gate"
    /\ IF ~force_reprocess /\ ~hasattr("is_vehicle_complete")
       THEN /\ pc' = "discover"
            /\ vidx' = vidx + 1
            /\ indices' = <<>>
            /\ UNCHANGED << stats, j >>
            /\ hist' = [hist EXCEPT !.gateDone = FALSE]
       ELSE /\ stats' = [stats EXCEPT !.groups_seen = @ + Len(indices)]
            /\ j' = 1
            /\ pc' = "group"
            /\ hist' = [hist EXCEPT !.gateDone = AllDoneNow,
                                    !.looped = @ \cup {CurVehicle}]
            /\ UNCHANGED << vidx, indices >>
    /\ UNCHANGED << persistent, site, force_reprocess, save_parquet, vlist,
                    cur, vehicles_processed, milestone_batch, milestones,
                    exit_code, budget >>

\* vehicle-level completeness gate.  Without force the gate evaluates
\* self.store.is_vehicle_complete, which DataStore does not define: the
\* AttributeError is caught by the vehicle-level handler and the vehicle's
\* group loop is not entered.  With force the gate is not evaluated.
VehicleGate ==
    /\ pc = "gate"
    /\ IF ~force_reprocess /\ ~hasattr("is_vehicle_complete")
       THEN /\ pc' = "after_vehicle"
            /\ UNCHANGED << stats, j >>
            /\ hist' = [hist EXCEPT !.gateDone = AllDoneNow]
       ELSE /\ stats' = [stats EXCEPT !.groups_seen = @ + Len(indices)]
            /\ j' = 1
            /\ pc' = "group"
            /\ hist' = [hist EXCEPT !.gateDone = AllDoneNow,
                                    !.looped = @ \cup {CurVehicle}]
    /\ UNCHANGED << persistent, site, force_reprocess, save_parquet, vlist, vidx, indices,
                    cur, vehicles_processed, milestone_batch, milestones, exit_code,
                    budget >>

\* head of the group loop: skip a done group, else mark it pending
GroupCheck ==
    /\ pc = "group"
    /\ j <= Len(indices)
    /\ IF SkipDone(_checkpoint_status(CurKey), force_reprocess)
       THEN /\ stats' = [stats EXCEPT !.groups_skipped = @ + 1]
            /\ j' = j + 1
            /\ hist' = [hist EXCEPT !.outcome = Append(@, "skipped"),
                                    !.steps = <<>>, !.attemptStart = NoSnapshot]
            /\ UNCHANGED << checkpoints, pc >>
       ELSE /\ checkpoints' = _checkpoint_mark_pending(CurKey)
            /\ pc' = "extract"
            /\ hist' = [hist EXCEPT !.attempted = @ \cup {CurKey},
                                    !.steps = << "markPending" >>,
                                    !.attemptStart = Snapshot,
                                    !.twice = IF CurKey \in hist.attempted
                                              THEN @ \cup {CurKey} ELSE @]
            /\ UNCHANGED << stats, j >>
    /\ UNCHANGED << parts, parts_pages, vehicles, csv, parquet, site, force_reprocess, save_parquet,
                    vlist, vidx, indices, cur, vehicles_processed,
                    milestone_batch, milestones, exit_code, budget >>

\* the group loop of the vehicle is exhausted
GroupLoopEnd ==
    /\ pc = "group"
    /\ j > Len(indices)
    /\ pc' = "after_vehicle"
    /\ UNCHANGED << persistent, site, force_reprocess, save_parquet, vlist, vidx, indices,
                    j, cur, stats, vehicles_processed, milestone_batch, milestones,
                    exit_code, budget, hist >>

\* outcomes of the diagram download of a group (download_image returning a
\* path or None)
ImageOutcomes(key) == IF key = << "v1", "F1" >> THEN BOOLEAN ELSE {TRUE}

\* collect_parts returns the rows of the group; the diagram download may fail
Extract ==
    /\ pc = "extract"
    /\ \E img \in ImageOutcomes(CurKey) :
          cur' = [rows |-> site.rows[CurKey], image_saved |-> img]
    /\ pc' = "save_page"
    /\ hist' = [hist EXCEPT !.steps = Append(@, "collect_parts")]
    /\ UNCHANGED << persistent, site, force_reprocess, save_parquet, vlist, vidx, indices,
                    j, stats, vehicles_processed, milestone_batch, milestones, exit_code,
                    budget >>

\* self.store.save_parts_page(parts_page); then "if part_rows:"
SavePartsPage ==
    /\ pc = "save_page"
    /\ parts_pages' = upsert_parts_page(parts_pages, CurKey, cur.image_saved)
    /\ pc' = IF cur.rows # <<>> THEN "upsert" ELSE "mark_done"
    /\ hist' = [hist EXCEPT !.steps = Append(@, "save_parts_page")]
    /\ UNCHANGED << checkpoints, parts, vehicles, csv, parquet, site, force_reprocess, save_parquet,
                    vlist, vidx, indices, j, cur, stats, vehicles_processed,
                    milestone_batch, milestones, exit_code, budget >>

\* append_parts_rows, first half: UPSERT into the parts table (one commit)
UpsertRows ==
    /\ pc = "upsert"
    /\ parts' = upsert_part_rows(parts,
                                 convert_parts_to_dict_list(CurKey, cur.rows))
    /\ pc' = "csv"
    /\ UNCHANGED << checkpoints, parts_pages, vehicles, csv, parquet, site,
                    force_reprocess, save_parquet, vlist, vidx, indices, j, cur, stats,
                    vehicles_processed, milestone_batch, milestones, exit_code, budget >>
    /\ hist' = [hist EXCEPT !.steps = Append(@, "upsert_part_rows")]

\* append_parts_rows, second half: re-fetch the group and rewrite the CSV
WriteCsv ==
    /\ pc = "csv"
    /\ csv' = _overwrite_group_in_csv(csv,
                 EnrichedGroupDf(parts, CurKey,
                                 convert_parts_to_dict_list(CurKey, cur.rows)))
    /\ IF save_parquet
       THEN pc' = "parquet" /\ UNCHANGED stats
       ELSE /\ pc' = "mark_done"
            /\ stats' = [stats EXCEPT !.parts_rows = @ + Len(cur.rows)]
    /\ UNCHANGED << checkpoints, parts, parts_pages, vehicles, parquet, site,
                    force_reprocess, save_parquet, vlist, vidx, indices, j, cur,
                    vehicles_processed, milestone_batch, milestones, exit_code, budget >>
    /\ hist' = [hist EXCEPT !.steps = Append(@, "_overwrite_group_in_csv")]

\* append_parts_rows, last part (save_parquet): rewrite the Parquet shard
WriteParquet ==
    /\ pc = "parquet"
    /\ parquet' = _overwrite_group_in_parquet(parquet,
                     EnrichedGroupDf(parts, CurKey,
                                     convert_parts_to_dict_list(CurKey,
                                                                cur.rows)))
    /\ stats' = [stats EXCEPT !.parts_rows = @ + Len(cur.rows)]
    /\ pc' = "mark_done"
    /\ UNCHANGED << checkpoints, parts, parts_pages, vehicles, csv, site,
                    force_reprocess, save_parquet, vlist, vidx, indices, j,
                    cur, vehicles_processed, milestone_batch, milestones,
                    exit_code, budget >>
    /\ hist' = [hist EXCEPT !.wroteParquet = TRUE]

\* faulty variant: the done group is not counted
MarkDoneUncounted ==
    /\ pc = "mark_done"
    /\ checkpoints' = _checkpoint_mark_done(CurKey, Len(cur.rows),
                                            cur.image_saved)
    /\ stats' = [stats EXCEPT !.images_saved =
                                  IF cur.image_saved THEN @ + 1 ELSE @]
    /\ j' = j + 1
    /\ cur' = NoResult
    /\ pc' = "group"
    /\ hist' = [hist EXCEPT !.outcome = Append(@, "done"),
                            !.extracted[CurKey] = cur.rows,
                            !.steps = Append(@, "markDone"),
                            !.attemptStart = NoSnapshot]
    /\ UNCHANGED << parts, parts_pages, vehicles, csv, parquet, site, force_reprocess, save_parquet,
                    vlist, vidx, indices, vehicles_processed, milestone_batch, milestones,
                    exit_code, budget >>

\* mark done only after the writes, count the group
MarkDone ==
    /\ pc = "mark_done"
    /\ checkpoints' = _checkpoint_mark_done(CurKey, Len(cur.rows),
                                            cur.image_saved)
    /\ stats' = [stats EXCEPT !.groups_done = @ + 1,
                              !.images_saved =
                                  IF cur.image_saved THEN @ + 1 ELSE @]
    /\ j' = j + 1
    /\ cur' = NoResult
    /\ pc' = "group"
    /\ hist' = [hist EXCEPT !.outcome = Append(@, "done"),
                            !.extracted[CurKey] = cur.rows,
                            !.steps = Append(@, "markDone"),
                            !.attemptStart = NoSnapshot]
    /\ UNCHANGED << parts, parts_pages, vehicles, csv, parquet, site, force_reprocess, save_parquet,
                    vlist, vidx, indices, vehicles_processed, milestone_batch, milestones,
                    exit_code, budget >>

\* collect_parts or a store/shard write raises inside the group's try block:
\* the handler marks the group error, counts it and the loop goes on
GroupAttemptRaises ==
    /\ pc \in {"extract", "save_page", "upsert", "csv", "parquet"}
    /\ disturbances < MaxDisturbances
    /\ disturbances' = disturbances + 1
    /\ checkpoints' = _checkpoint_mark_error(CurKey, "E")
    /\ stats' = [stats EXCEPT !.groups_failed = @ + 1]
    /\ j' = j + 1
    /\ cur' = NoResult
    /\ pc' = "group"
    /\ hist' = [hist EXCEPT !.outcome = Append(@, "error"), !.faulted = TRUE,
                            !.nErrors = @ + 1, !.steps = Append(@, "markError")]
    /\ UNCHANGED << parts, parts_pages, vehicles, csv, parquet, site, force_reprocess, save_parquet,
                    vlist, vidx, indices, vehicles_processed, milestone_batch, milestones,
                    exit_code, runs >>

\* "if image_saved: self.total_images_saved += 1" comes before
\* _checkpoint_mark_done: when that call raises the image is already counted
CountImage(st) ==
    IF pc = "mark_done" /\ cur.image_saved
    THEN [st EXCEPT !.images_saved = @ + 1] ELSE st

\* _checkpoint_mark_done raises: the group's handler marks the group error
\* and counts the failure, the loop goes on with the next group
MarkDoneRaises ==
    /\ pc = "mark_done"
    /\ disturbances < MaxDisturbances
    /\ disturbances' = disturbances + 1
    /\ checkpoints' = _checkpoint_mark_error(CurKey, "E")
    /\ stats' = [CountImage(stats) EXCEPT !.groups_failed = @ + 1]
    /\ j' = j + 1
    /\ cur' = NoResult
    /\ pc' = "group"
    /\ hist' = [hist EXCEPT !.outcome = Append(@, "error"), !.faulted = TRUE,
                            !.nErrors = @ + 1, !.steps = Append(@, "markError"),
                            !.markDoneRaised = @ \cup {CurKey}]
    /\ UNCHANGED << parts, parts_pages, vehicles, csv, parquet, site,
                    force_reprocess, save_parquet, vlist, vidx, indices,
                    vehicles_processed, milestone_batch, milestones,
                    exit_code, runs >>

\* faulty variant: the exception of a checkpoint operation ends the run
CheckpointOpRaisesAborts ==
    /\ \/ pc = "group" /\ j <= Len(indices)
       \/ pc \in {"extract", "mark_done"}
    /\ disturbances < MaxDisturbances
    /\ disturbances' = disturbances + 1
    /\ pc' = "exited1"
    /\ exit_code' = ExitCode(TRUE)
    /\ cur' = NoResult
    /\ stats' = CountImage(stats)
    /\ hist' = [hist EXCEPT !.faulted = TRUE, !.steps = <<>>,
                            !.attemptStart = NoSnapshot,
                            !.ckptRaised = @ \cup {CurVehicle}]
    /\ UNCHANGED << persistent, site, force_reprocess, save_parquet, vlist,
                    vidx, indices, j, vehicles_processed,
                    milestone_batch, milestones, runs >>

\* a checkpoint operation raises outside the group's own try block:
\* _checkpoint_status or _checkpoint_mark_pending at the head of the loop,
\* or _checkpoint_mark_error inside the group's handler (entered because
\* collect_parts or _checkpoint_mark_done raised); the vehicle-level handler
\* logs it, the rest of the vehicle's groups is dropped and the loop goes on
\* to _after_vehicle
CheckpointOpRaises ==
    /\ \/ pc = "group" /\ j <= Len(indices)
       \/ pc \in {"extract", "mark_done"}
    /\ disturbances < MaxDisturbances
    /\ disturbances' = disturbances + 1
    /\ pc' = "after_vehicle"
    /\ cur' = NoResult
    /\ stats' = CountImage(stats)
    /\ hist' = [hist EXCEPT !.faulted = TRUE, !.steps = <<>>,
                            !.attemptStart = NoSnapshot,
                            !.ckptRaised = @ \cup {CurVehicle}]
    /\ UNCHANGED << persistent, site, force_reprocess, save_parquet, vlist,
                    vidx, indices, j, vehicles_processed,
                    milestone_batch, milestones, exit_code, runs >>

\* faulty variant: the exception of the milestone write is not caught and
\* ends the run
AfterVehicleMilestoneAborts ==
    /\ pc = "after_vehicle"
    /\ vehicles_processed' = vehicles_processed + 1
    /\ milestone_batch' =
          IF vehicles_processed' % milestone_every = 0
          THEN milestone_batch + 1 ELSE milestone_batch
    /\ UNCHANGED milestones
    /\ IF vehicles_processed' % milestone_every = 0
       THEN /\ pc' = "exited1"
            /\ exit_code' = ExitCode(TRUE)
            /\ UNCHANGED << vidx, indices, j >>
       ELSE /\ vidx' = vidx + 1
            /\ indices' = <<>> /\ j' = 0
            /\ pc' = "discover"
            /\ UNCHANGED exit_code
    /\ hist' = [hist EXCEPT !.outcome = <<>>, !.gateDone = FALSE,
                            !.steps = <<>>, !.attemptStart = NoSnapshot]
    /\ UNCHANGED << persistent, site, force_reprocess, save_parquet, vlist,
                    cur, stats, budget >>

\* _after_vehicle: count the vehicle; every milestone_every vehicles the
\* batch number is incremented and store.mark_milestone is looked up, which
\* raises AttributeError (caught): no milestone is stored
AfterVehicle ==
    /\ pc = "after_vehicle"
    /\ vehicles_processed' = vehicles_processed + 1
    /\ milestone_batch' =
          IF vehicles_processed' % milestone_every = 0
          THEN milestone_batch + 1 ELSE milestone_batch
    /\ milestones' =
          IF vehicles_processed' % milestone_every = 0
                /\ hasattr("mark_milestone")
          THEN milestones \cup { << milestone_batch', CurVehicle >> }
          ELSE milestones
    /\ vidx' = vidx + 1
    /\ indices' = <<>> /\ j' = 0
    /\ pc' = "discover"
    /\ hist' = [hist EXCEPT !.outcome = <<>>, !.gateDone = FALSE,
                            !.steps = <<>>, !.attemptStart = NoSnapshot]
    /\ UNCHANGED << persistent, site, force_reprocess, save_parquet, vlist, cur, stats,
                    exit_code, budget >>

\* end of the vehicle loop: final statistics, the finally block, run()
\* returns and the exit code is 0; an exception of browser.close() leaves
\* run() after session.close() and main() exits with code 1
Finish ==
    /\ pc = "discover"
    /\ vidx > Len(vlist)
    /\ \E browser_close_raises \in BOOLEAN :
          /\ browser_close_raises => disturbances < MaxDisturbances
          /\ disturbances' =
                IF browser_close_raises THEN disturbances + 1 ELSE disturbances
          /\ pc' = IF browser_close_raises THEN "exited1" ELSE "exited0"
          /\ exit_code' = ExitCode(browser_close_raises)
          /\ hist' = [hist EXCEPT
                         !.settled = ~hist.faulted /\ ~browser_close_raises,
                         !.faulted = @ \/ browser_close_raises,
                         !.released = finally_block(browser_close_raises),
                         !.closeRaised = browser_close_raises]
    /\ UNCHANGED << persistent, site, force_reprocess, save_parquet, vlist, vidx, indices,
                    j, cur, stats, vehicles_processed, milestone_batch, milestones,
                    runs >>

\* the process is killed between two steps: memory is lost, the database
\* and the shard stay as they are
Crash ==
    /\ Running
    /\ disturbances < MaxDisturbances
    /\ disturbances' = disturbances + 1
    /\ pc' = "killed"
    /\ exit_code' = "killed"
    /\ vlist' = <<>> /\ vidx' = 0 /\ indices' = <<>> /\ j' = 0
    /\ cur' = NoResult
    /\ stats' = ZeroStats
    /\ vehicles_processed' = 0 /\ milestone_batch' = 0
    /\ hist' = [hist EXCEPT !.outcome = <<>>, !.looped = {},
                            !.gateDone = FALSE,
                            !.discovered = <<>>, !.steps = <<>>, !.attemptStart = NoSnapshot,
                            !.killedIn = IF InAttempt THEN {CurKey} ELSE {}]
    /\ UNCHANGED << persistent, milestones, site, force_reprocess,
                    save_parquet, runs >>

\* the process is killed while out.to_csv rewrites the shard in place: the
\* file is left with a proper prefix of the rows being written
CrashDuringCsvWrite ==
    /\ pc = "csv"
    /\ disturbances < MaxDisturbances
    /\ disturbances' = disturbances + 1
    /\ LET out == _overwrite_group_in_csv(csv,
                     EnrichedGroupDf(parts, CurKey,
                                     convert_parts_to_dict_list(CurKey,
                                                                cur.rows)))
       IN  \E n \in 0..(Len(out) - 1) : csv' = SubSeq(out, 1, n)
    /\ pc' = "killed"
    /\ exit_code' = "killed"
    /\ vlist' = <<>> /\ vidx' = 0 /\ indices' = <<>> /\ j' = 0
    /\ cur' = NoResult
    /\ stats' = ZeroStats
    /\ vehicles_processed' = 0 /\ milestone_batch' = 0
    /\ hist' = [hist EXCEPT !.outcome = <<>>, !.looped = {},
                            !.gateDone = FALSE, !.killedIn = {CurKey},
                            !.discovered = <<>>, !.steps = <<>>, !.attemptStart = NoSnapshot]
    /\ UNCHANGED << checkpoints, parts, parts_pages, vehicles, parquet,
                    milestones, site, force_reprocess, save_parquet, runs >>

\* Ctrl-C or a cancellation while run() awaits collect_vehicles,
\* collect_indices or collect_parts: KeyboardInterrupt and
\* asyncio.CancelledError derive from BaseException, so neither the group
\* handler nor the vehicle handler ("except Exception") runs; run() unwinds
\* through its finally block and main() prints a message and returns; an
\* exception of browser.close() in the finally block replaces the interrupt
\* and main() exits with code 1
Interrupt ==
    /\ pc \in {"collect", "extract"} \/ (pc = "discover" /\ vidx <= Len(vlist))
    /\ disturbances < MaxDisturbances
    /\ pc' = "interrupted"
    /\ vlist' = <<>> /\ vidx' = 0 /\ indices' = <<>> /\ j' = 0
    /\ cur' = NoResult
    /\ stats' = ZeroStats
    /\ vehicles_processed' = 0 /\ milestone_batch' = 0
    /\ \E browser_close_raises \in BOOLEAN :
          /\ browser_close_raises => disturbances + 1 < MaxDisturbances
          /\ disturbances' =
                IF browser_close_raises THEN disturbances + 2
                ELSE disturbances + 1
          /\ exit_code' = ExitCode(browser_close_raises)
          /\ hist' = [hist EXCEPT
                         !.outcome = <<>>, !.looped = {},
                         !.gateDone = FALSE, !.faulted = TRUE,
                         !.discovered = <<>>, !.steps = <<>>,
                         !.attemptStart = NoSnapshot,
                         !.released = finally_block(browser_close_raises),
                         !.closeRaised = browser_close_raises]
    /\ UNCHANGED << persistent, milestones, site, force_reprocess,
                    save_parquet, runs >>

\* between two runs the catalogue changes the parts table of one group or
\* the group list of one vehicle
SiteChange ==
    /\ ~Running
    /\ disturbances < MaxDisturbances
    /\ disturbances' = disturbances + 1
    /\ \/ \E k \in Discovered(site) : \E r \in RowChoices[k] \ {site.rows[k]} :
             site' = [site EXCEPT !.rows[k] = r]
       \/ \E v \in VehicleIds : \E g \in GroupListChoices[v] \ {site.groups[v]} :
             site' = [site EXCEPT !.groups[v] = g]
       \/ \E k \in Discovered(site) :
             \E g \in GroupDescChoices[k] \ {site.group_desc[k]} :
                site' = [site EXCEPT !.group_desc[k] = g]
    /\ pc' = "idle"
    /\ hist' = [hist EXCEPT !.settled = FALSE]
    /\ UNCHANGED << persistent, force_reprocess, save_parquet, vlist, vidx, indices, j,
                    cur, stats, vehicles_processed, milestone_batch, milestones,
                    exit_code, runs >>

Next ==
    \/ \E f, q \in BOOLEAN : StartRun(f, q)
    \/ CollectVehicles
    \/ CollectVehiclesRaises
    \/ Discover
    \/ DiscoverRaises
    \/ VehicleGate
    \/ GroupCheck
    \/ GroupLoopEnd
    \/ Extract
    \/ SavePartsPage
    \/ UpsertRows
    \/ WriteCsv
    \/ WriteParquet
    \/ MarkDone
    \/ GroupAttemptRaises
    \/ AfterVehicle
    \/ Finish
    \/ Crash
    \/ CrashDuringCsvWrite
    \/ Interrupt
    \/ SiteChange

Spec == Init /\ [][Next]_vars

(***************************************************************************)
(* Forced runs in which the operations of the checkpoint store may raise   *)
(***************************************************************************)
CheckpointFaultNext ==
    \/ StartRun(TRUE, FALSE)
    \/ CollectVehicles
    \/ Discover
    \/ VehicleGate
    \/ GroupCheck
    \/ GroupLoopEnd
    \/ Extract
    \/ SavePartsPage
    \/ UpsertRows
    \/ WriteCsv
    \/ MarkDone
    \/ GroupAttemptRaises
    \/ MarkDoneRaises
    \/ CheckpointOpRaises
    \/ AfterVehicle
    \/ Finish

CheckpointFaultSpec == Init /\ [][CheckpointFaultNext]_vars

(***************************************************************************)
(* A long catalogue: the vehicle loop over a listing of MaxVehicles        *)
(* vehicles, named by their position, none of which has a group            *)
(***************************************************************************)
LongListing == [i \in 1..MaxVehicles |-> i]

LongSite ==
    [listing |-> LongListing,
     groups |-> [v \in 1..MaxVehicles |-> <<>>],
     rows |-> [k \in Keys |-> <<>>],
     group_desc |-> [k \in Keys |-> "G1"]]

MilestoneInit ==
    /\ checkpoints = [k \in Keys |-> Absent]
    /\ parts = <<>>
    /\ parts_pages = [k \in Keys |-> NULL]
    /\ vehicles = {}
    /\ csv = <<>>
    /\ parquet = <<>>
    /\ milestones = {}
    /\ site = LongSite
    /\ pc = "idle"
    /\ force_reprocess = FALSE /\ save_parquet = FALSE
    /\ vlist = <<>> /\ vidx = 0
    /\ indices = <<>> /\ j = 0
    /\ cur = NoResult
    /\ stats = ZeroStats
    /\ vehicles_processed = 0 /\ milestone_batch = 0
    /\ exit_code = "none"
    /\ runs = 0 /\ disturbances = 0
    /\ hist = NoHist

MilestoneNext ==
    \/ \E f, q \in BOOLEAN : StartRun(f, q)
    \/ CollectVehicles
    \/ Discover
    \/ AfterVehicle
    \/ Finish

MilestoneSpec == MilestoneInit /\ [][MilestoneNext]_vars

(***************************************************************************)
(* Group discovery in detail (aggregates.py): the rows of the ENGINE and   *)
(* FRAME list tables of one vehicle are turned into TableIndex records.    *)
(* A token is a sequence of characters; NoneToken stands for None.         *)
(***************************************************************************)
NoneToken == << "None" >>

\* the table_no and group_code texts a list row can carry
Tokens ==
    { <<>>, NoneToken, << " " >>,
      << "E", "-", "1" >>, << " ", "e", "-", "1", " " >>,
      << "F", "-", "1" >>, << "f", "-", "1" >>,
      << "E", "1" >>, << "-", "E", "-" >>, << "X", "1" >> }

\* the rows one list table can show: none, or one row
ListRowChoices ==
    { <<>> } \cup
    { << [table_no |-> t, group_code |-> g] >> : t \in Tokens, g \in Tokens }

Whitespace == { " " }

RECURSIVE lstrip(_)
lstrip(s) ==
    IF s # <<>> /\ Head(s) \in Whitespace THEN lstrip(Tail(s)) ELSE s

RECURSIVE rstrip(_)
rstrip(s) ==
    IF s # <<>> /\ s[Len(s)] \in Whitespace
    THEN rstrip(SubSeq(s, 1, Len(s) - 1)) ELSE s

\* str.strip()
strip(s) == rstrip(lstrip(s))

\* str.upper()
upper(s) ==
    [i \in 1..Len(s) |->
        CASE s[i] = "e" -> "E"
          [] s[i] = "f" -> "F"
          [] OTHER -> s[i]]

\* str.startswith(prefix)
startswith(s, prefix) ==
    Len(s) >= Len(prefix) /\ SubSeq(s, 1, Len(prefix)) = prefix

\* (x or "")
OrEmpty(x) == IF x = NoneToken \/ x = <<>> THEN <<>> ELSE x

\* faulty variant: the FRAME prefix is tested before the ENGINE prefix
_infer_group_type_frame_first(table_no, group_code, fallback) ==
    LET tn == upper(strip(OrEmpty(table_no)))
        gc == upper(strip(OrEmpty(group_code)))
    IN  IF startswith(tn, << "F", "-" >>) \/ startswith(gc, << "F", "-" >>)
        THEN "FRAME"
        ELSE IF startswith(tn, << "E", "-" >>) \/ startswith(gc, << "E", "-" >>)
             THEN "ENGINE"
             ELSE fallback

_infer_group_type(table_no, group_code, fallback) ==
    LET tn == upper(strip(OrEmpty(table_no)))
        gc == upper(strip(OrEmpty(group_code)))
    IN  IF startswith(tn, << "E", "-" >>) \/ startswith(gc, << "E", "-" >>)
        THEN "ENGINE"
        ELSE IF startswith(tn, << "F", "-" >>) \/ startswith(gc, << "F", "-" >>)
             THEN "FRAME"
             ELSE fallback

\* push(rows, table_hint): rows without a group_code are dropped, the others
\* become TableIndex records
RECURSIVE push(_, _)
push(rows, table_hint) ==
    IF rows = <<>> THEN <<>>
    ELSE LET it == Head(rows)
         IN  IF OrEmpty(it.group_code) = <<>>
             THEN push(Tail(rows), table_hint)
             ELSE << [group_type |-> _infer_group_type(it.table_no,
                                                       it.group_code,
                                                       table_hint),
                      table_no |-> it.table_no,
                      group_code |-> it.group_code] >>
                  \o push(Tail(rows), table_hint)

\* a vehicle whose aggregates page shows any combination of list rows
ListSites ==
    { [listing |-> << "v1" >>, engine_rows |-> e, frame_rows |-> f] :
         e \in ListRowChoices, f \in ListRowChoices }

InferInit ==
    /\ checkpoints = [k \in Keys |-> Absent]
    /\ parts = <<>>
    /\ parts_pages = [k \in Keys |-> NULL]
    /\ vehicles = {}
    /\ csv = <<>>
    /\ parquet = <<>>
    /\ milestones = {}
    /\ site \in ListSites
    /\ pc = "idle"
    /\ force_reprocess = FALSE /\ save_parquet = FALSE
    /\ vlist = <<>> /\ vidx = 0
    /\ indices = <<>> /\ j = 0
    /\ cur = NoResult
    /\ stats = ZeroStats
    /\ vehicles_processed = 0 /\ milestone_batch = 0
    /\ exit_code = "none"
    /\ runs = 0 /\ disturbances = 0
    /\ hist = NoHist

\* collect_indices: push(engine_rows, "ENGINE"); push(frame_rows, "FRAME")
CollectIndices ==
    /\ pc = "discover"
    /\ vidx <= Len(vlist)
    /\ indices' = push(site.engine_rows, "ENGINE")
                  \o push(site.frame_rows, "FRAME")
    /\ pc' = IF indices' = <<>> THEN "after_vehicle" ELSE "gate"
    /\ hist' = [hist EXCEPT !.discovered = Append(@, CurVehicle)]
    /\ UNCHANGED << persistent, site, force_reprocess, save_parquet, vlist,
                    vidx, j, cur, stats, vehicles_processed, milestone_batch,
                    milestones, exit_code, budget >>

InferNext ==
    \/ StartRun(TRUE, FALSE)
    \/ CollectVehicles
    \/ CollectIndices

InferSpec == InferInit /\ [][InferNext]_vars

(***************************************************************************)
(* Properties                                                              *)
(***************************************************************************)
\* rows of the shard / of the parts table that carry the identity of group k
ShardRowsOf(k) == LET IsGroup(d) == GroupKey(d) = k IN SelectSeq(csv, IsGroup)
TableRowsOf(k) == LET IsGroup(d) == GroupKey(d) = k IN SelectSeq(parts, IsGroup)

\* shard rows cut down to the columns the parts table stores
StoredColumnsOf(rows) == [i \in 1..Len(rows) |-> StoredColumns(rows[i])]

HasKey(rows, d) == \E i \in 1..Len(rows) : NaturalKey(rows[i]) = NaturalKey(d)

NoDuplicateKeys(rows) ==
    \A a, b \in 1..Len(rows) :
        NaturalKey(rows[a]) = NaturalKey(rows[b]) => a = b

\* the run in progress or just ended started from an empty checkpoint store
StartEmpty == \A k \in Keys : hist.startCkpt[k] = Absent

\* every group the site lists was done when the run started
StartAllDone == \A k \in Discovered(site) : hist.startCkpt[k].status = "done"

\* a run is in progress, or has ended and the site has not changed since
RunInView == pc # "idle"

\* C1: a first non-force run from an empty checkpoint store in which the
\* listing, the discovery and every extraction succeed ends with every
\* discovered group done and the shard holding exactly the extracted rows of
\* each group.
C1_FirstRunCompletes ==
    (pc = "exited0" /\ ~hist.force /\ ~hist.faulted /\ StartEmpty) =>
        \A k \in Discovered(site) :
            /\ checkpoints[k].status = "done"
            /\ Len(ShardRowsOf(k)) = Len(site.rows[k])
            /\ \A i \in 1..Len(site.rows[k]) :
                  HasKey(ShardRowsOf(k),
                         convert_parts_to_dict_list(k, site.rows[k])[i])

\* C2: in a non-force run that starts with every discovered group done, no
\* group is re-attempted (no markPending, hence no collect_parts) and the
\* checkpoint records, the parts table and the shard stay as they were at
\* the start of the run.
C2_SecondRunChangesNothing ==
    (RunInView /\ ~hist.force /\ StartAllDone) =>
        /\ hist.attempted = {}
        /\ ~InAttempt
        /\ checkpoints = hist.startCkpt
        /\ parts = hist.startParts
        /\ csv = hist.startCsv

C2_Witness ==
    /\ pc = "exited0" /\ ~hist.force /\ StartAllDone
    /\ runs = 2
    /\ vehicles_processed = Len(site.listing)
    /\ Discovered(site) # {}
    /\ csv # <<>>

\* C3: a complete run that re-processes the groups (force) right after a
\* complete run against the same site, neither meeting a failure, ends with
\* the parts table and the shard the first run left, and no two rows of
\* either share a natural key.
C3_SecondRunIdempotent ==
    (pc = "exited0" /\ hist.force /\ ~hist.faulted /\ hist.afterSettled) =>
        /\ parts = hist.startParts
        /\ csv = hist.startCsv
        /\ NoDuplicateKeys(parts)
        /\ NoDuplicateKeys(csv)

\* C4: a vehicle with at least one discovered group is skipped as a whole
\* (its group loop is not entered) if and only if the run is not a force
\* run and every group discovered for it is done.
C4_VehicleSkippedIffAllDone ==
    (pc = "after_vehicle" /\ indices # <<>>) =>
        ((CurVehicle \notin hist.looped) <=> (~hist.force /\ hist.gateDone))

\* C5: once a vehicle with discovered groups has been dealt with, a group
\* of it has been left alone if and only if it was done and the run is not
\* a force run; every other group (absent, pending, error, or any group
\* under force) has been attempted.
C5_GroupSkippedIffDone ==
    (pc = "after_vehicle" /\ indices # <<>>) =>
        \A i \in 1..Len(indices) :
            LET k == << CurVehicle, indices[i] >>
            IN  (k \notin hist.attempted) <=>
                    (hist.startCkpt[k].status = "done" /\ ~hist.force)

\* C6: in every reachable state, also after a kill, a group whose
\* checkpoint is done has every row of the extraction that produced the
\* done in the parts table and in the shard.
C6_DoneMeansPersisted ==
    \A k \in Keys :
        checkpoints[k].status = "done" =>
            \A i \in 1..Len(hist.extracted[k]) :
                LET d == convert_parts_to_dict_list(k, hist.extracted[k])[i]
                IN  HasKey(TableRowsOf(k), d) /\ HasKey(ShardRowsOf(k), d)

\* C7: when the attempt of a group raises, its checkpoint is error with the
\* message recorded and the failure counted; the groups of the vehicle done
\* before it stay done, the groups after it are still attempted, and the
\* vehicle loop goes on to the end of the listing (the checkpoint operations
\* themselves working).
C7_ErrorIsolation ==
    /\ (pc \in {"group", "extract", "save_page", "upsert", "csv", "parquet",
                "mark_done", "after_vehicle"} /\ indices # <<>>
          /\ CurVehicle \in hist.looped
          /\ CurVehicle \notin hist.ckptRaised) =>
            LET reached == IF InAttempt THEN j ELSE Len(hist.outcome)
            IN  /\ \A i \in 1..Len(hist.outcome) :
                      LET k == << CurVehicle, indices[i] >>
                          last == \A i2 \in (i + 1)..reached :
                                      indices[i2] # indices[i]
                      IN  /\ (hist.outcome[i] = "error" /\ last) =>
                                /\ checkpoints[k].status = "error"
                                /\ checkpoints[k].last_error = "E"
                          /\ (hist.outcome[i] = "done" /\ last) =>
                                checkpoints[k].status = "done"
                          /\ hist.outcome[i] # "skipped" => k \in hist.attempted
                /\ pc = "after_vehicle" => Len(hist.outcome) = Len(indices)
    /\ Running => stats.groups_failed = hist.nErrors
    /\ pc = "exited0" =>
            /\ vehicles_processed = Len(site.listing)
            /\ stats.groups_failed = hist.nErrors

C7_Witness ==
    /\ pc = "after_vehicle"
    /\ hist.outcome = << "done", "error", "done" >>
    /\ stats.groups_failed = 1

\* C8: a kill between markPending(k) and markDone/markError(k) leaves k
\* pending, and the next non-force run that discovers k and meets no
\* failure re-attempts k and ends with k done.
C8_PendingIsResumed ==
    /\ pc = "killed" =>
          \A k \in hist.killedIn : checkpoints[k].status = "pending"
    /\ (pc = "exited0" /\ ~hist.force /\ ~hist.faulted) =>
          \A k \in Discovered(site) :
              hist.startCkpt[k].status = "pending" =>
                  (k \in hist.attempted /\ checkpoints[k].status = "done")

\* C9 as stated: a force run that starts with some groups done and others
\* error re-attempts exactly the groups that were not done.
C9_ForceRetriesOnlyFailed ==
    (pc = "exited0" /\ hist.force /\ ~hist.discFailed
        /\ (\E k \in Discovered(site) : hist.startCkpt[k].status = "done")
        /\ (\E k \in Discovered(site) : hist.startCkpt[k].status = "error")) =>
        hist.attempted =
            { k \in Discovered(site) : hist.startCkpt[k].status # "done" }

\* C9 amended: a force run in which every discovery succeeds and no
\* checkpoint operation raises re-attempts every discovered group, the
\* groups that were done as well as those that were error, pending or absent.
C9_ForceRetriesEveryGroup ==
    (pc = "exited0" /\ hist.force /\ ~hist.discFailed
        /\ hist.ckptRaised = {}) =>
        hist.attempted = Discovered(site)

C9_Witness ==
    /\ pc = "exited0" /\ hist.force /\ ~hist.discFailed
    /\ hist.ckptRaised = {}
    /\ \E k \in hist.attempted : hist.startCkpt[k].status = "done"
    /\ \E k \in hist.attempted : hist.startCkpt[k].status = "error"

C11_UpsertMerge ==
    [][(pc = "upsert" /\ pc' = "csv") =>
          LET sub == convert_parts_to_dict_list(CurKey, cur.rows)
              newKeys == { NaturalKey(sub[i]) : i \in 1..Len(sub) } \
                         { NaturalKey(parts[i]) : i \in 1..Len(parts) }
          IN  /\ NoDuplicateKeys(parts')
              /\ Len(parts') = Len(parts) + Cardinality(newKeys)
              /\ \A i \in 1..Len(parts) :
                    /\ NaturalKey(parts'[i]) = NaturalKey(parts[i])
                    /\ ~HasKey(sub, parts[i]) => parts'[i] = parts[i]
              /\ \A i \in 1..Len(sub) :
                    (\A i2 \in (i + 1)..Len(sub) :
                        NaturalKey(sub[i2]) # NaturalKey(sub[i])) =>
                    \E n \in 1..Len(parts') :
                        parts'[n] = StoredColumns(sub[i])]_vars

\* a stored row has been re-submitted with another description: the table
\* has as many rows as at the start of the run and the new description
C11_Witness ==
    /\ pc = "csv"
    /\ Len(parts) = Len(hist.startParts)
    /\ \E a \in 1..Len(parts) : \E b \in 1..Len(hist.startParts) :
          /\ NaturalKey(parts[a]) = NaturalKey(hist.startParts[b])
          /\ parts[a].description # hist.startParts[b].description
          /\ parts[a].description = cur.rows[1].description

\* C12: once append_parts_rows has rewritten the shard for a group, the
\* shard rows that carry the group's identity are exactly the rows the parts
\* table holds for the group, in the order _fetch_group_df returns them;
\* rows the shard held for the group before are replaced, not added to.
C12_ConvergentMaterialization ==
    (pc \in {"parquet", "mark_done"} /\ cur.rows # <<>>) =>
        StoredColumnsOf(ShardRowsOf(CurKey)) = _fetch_group_df(parts, CurKey)

\* a group the shard already held at the start of the run has been
\* materialized again with a changed description: as many rows as before
C12_Witness ==
    /\ pc = "mark_done" /\ cur.rows # <<>>
    /\ LET IsGroup(d) == GroupKey(d) = CurKey
           old == SelectSeq(hist.startCsv, IsGroup)
       IN  /\ old # <<>>
           /\ Len(ShardRowsOf(CurKey)) = Len(old)
           /\ \E i \in 1..Len(old) :
                 /\ old[i].description = "D1"
                 /\ ShardRowsOf(CurKey)[i].description = "D2"

\* C13: in every reachable state, whatever the runs, forced re-runs, kills
\* and restarts before it, no two rows of the CSV shard share a natural key
\* (vehicle, group, ref_no, part_no).
C13_NoDuplicateRowsInShard == NoDuplicateKeys(csv)

\* a ref_no made of digits only
IsNumericRef(ref) == ref \in {"1", "2"}

\* the order the ordering contract describes: numeric ref_no first, by
\* value; then the non-numeric and empty ones; ties by the raw string
StatedBefore(a, b) ==
    LET na == IsNumericRef(a.ref_no)
        nb == IsNumericRef(b.ref_no)
    IN  IF na # nb THEN na
        ELSE IF na /\ CastInt(a.ref_no) # CastInt(b.ref_no)
             THEN CastInt(a.ref_no) < CastInt(b.ref_no)
             ELSE RefRank(a.ref_no) < RefRank(b.ref_no)

\* C14: _fetch_group_df returns the rows of a group ordered by the numeric
\* value of ref_no, every row with a non-numeric or empty ref_no after all
\* rows with a numeric one, ties broken by the raw ref_no string.
C14_NonNumericRefNoLast ==
    \A k \in Keys :
        LET df == _fetch_group_df(parts, k)
        IN  \A a, b \in 1..Len(df) : a < b => ~StatedBefore(df[b], df[a])

RowSet(rows) == { rows[i] : i \in 1..Len(rows) }

\* C15: at the end of a run that wrote the Parquet shard, whatever runs
\* (with or without the Parquet option, with or without force) came before
\* it, the Parquet shard holds the same set of rows as the CSV shard.
C15_ParquetEqualsCsv ==
    (pc = "exited0" /\ hist.wroteParquet /\ parquet # <<>>) =>
        RowSet(parquet) = RowSet(csv)

\* C16: at the end of a run that processed n vehicles, the store holds
\* floor(n / milestone_every) milestones, the one with batch number b
\* naming vehicle number b * milestone_every of the listing: for 61 vehicles
\* and milestone_every = 30, batches 1 and 2 with the 30th and 60th vehicle.
C16_MilestoneCadence ==
    pc = "exited0" =>
        milestones =
            { << b, vlist[b * milestone_every] >> :
                b \in 1..(vehicles_processed \div milestone_every) }

C18_DiscoveryFailureIsolated ==
    /\ (Running \/ pc = "exited0") =>
          \A v \in hist.discFailedV : \A g \in GroupIds :
              checkpoints[<< v, g >>] = hist.startCkpt[<< v, g >>]
    /\ (hist.discFailedV # {} /\ pc \notin {"killed", "interrupted"}
            /\ ~hist.closeRaised) =>
          (Running \/ pc \in {"exited0", "idle"})
    /\ (Running /\ pc # "collect") => vehicles_processed = vidx - 1
    /\ pc = "exited0" => vehicles_processed = Len(vlist)

\* discovery failed for the first vehicle and the second one was processed
C18_Witness ==
    /\ pc = "exited0" /\ hist.force
    /\ hist.discFailedV = {"v1"}
    /\ "v2" \in hist.looped
    /\ checkpoints[<< "v2", "E1" >>].status = "done"
    /\ vehicles_processed = 2

\* C19: when discovery returns no group for a vehicle, the step to the end
\* of the vehicle changes no checkpoint and no run statistic
\* (total_groups_seen, total_groups_failed), and the step after it adds one
\* to the vehicle counter and moves to the next vehicle of the listing.
C19_ZeroGroupsVehicle ==
    [][/\ (pc = "discover" /\ pc' = "after_vehicle"
              /\ disturbances' = disturbances) =>
            (indices' = <<>> /\ UNCHANGED << checkpoints, stats >>)
       /\ (pc = "after_vehicle" /\ indices = <<>> /\ pc' = "discover") =>
            /\ vehicles_processed' = vehicles_processed + 1
            /\ vidx' = vidx + 1
            /\ UNCHANGED << checkpoints, stats >>]_vars

\* the second vehicle had no group in a force run and has been counted
C19_Witness ==
    /\ pc = "discover" /\ vidx = 3 /\ hist.force
    /\ site.groups["v2"] = <<>>
    /\ hist.discFailedV = {}
    /\ vehicles_processed = 2
    /\ \A g \in GroupIds : checkpoints[<< "v2", g >>] = Absent

\* C20: when the diagram download fails and the rows were extracted,
\* collect_parts returns normally and the attempt ends with the group's
\* checkpoint done, image_saved = 0 and the row count of the extraction,
\* the image counter unchanged, and every extracted row in the parts table
\* and in the shard.
C20_AssetFailureNonFatal ==
    [][(pc = "mark_done" /\ ~cur.image_saved /\ pc' = "group"
          /\ disturbances' = disturbances) =>
          LET sub == convert_parts_to_dict_list(CurKey, cur.rows)
          IN  /\ checkpoints'[CurKey].status = "done"
              /\ checkpoints'[CurKey].image_saved = 0
              /\ checkpoints'[CurKey].row_count = Len(cur.rows)
              /\ checkpoints'[CurKey].last_error = NULL
              /\ stats'.images_saved = stats.images_saved
              /\ stats'.groups_done = stats.groups_done + 1
              /\ stats'.groups_failed = stats.groups_failed
              /\ \A i \in 1..Len(sub) :
                    /\ HasKey(TableRowsOf(CurKey), sub[i])
                    /\ HasKey(ShardRowsOf(CurKey), sub[i])]_vars

\* a group with one row whose diagram could not be downloaded is done
C20_Witness ==
    /\ pc = "group"
    /\ checkpoints[<< "v1", "F1" >>] =
          [status |-> "done", row_count |-> 1, image_saved |-> 0,
           last_error |-> NULL]
    /\ parts_pages[<< "v1", "F1" >>] = ""
    /\ Len(ShardRowsOf(<< "v1", "F1" >>)) = 1
    /\ Len(TableRowsOf(<< "v1", "F1" >>)) = 1

\* C21: when a run has ended without the process being killed -- it returned,
\* raised a fatal error, or was interrupted or cancelled during a group's
\* extraction -- no checkpoint that the run marked pending is still pending.
C21_NoPendingAfterCleanShutdown ==
    pc \in {"exited0", "exited1", "interrupted"} =>
        \A k \in hist.attempted : checkpoints[k].status # "pending"

\* C22: each checkpoint mark replaces the whole record of its key, whatever
\* the record held before, and leaves the records of the other keys alone:
\* pending is (pending, NULL, 0, NULL), done is (done, n, a, NULL), error is
\* (error, NULL, 0, m).  Stated for the three store operations applied to
\* the key of the current group on every content of the table the pipeline
\* reaches, and for the records the pipeline has written.
C22_MarkReplacesWholeRecord ==
    /\ (pc = "group" /\ j <= Len(indices)) \/ InAttempt =>
          /\ checkpoint_mark_pending(CurKey)[CurKey] =
                [status |-> "pending", row_count |-> NullInt,
                 image_saved |-> 0, last_error |-> NULL]
          /\ checkpoint_mark_error(CurKey, "E")[CurKey] =
                [status |-> "error", row_count |-> NullInt,
                 image_saved |-> 0, last_error |-> "E"]
          /\ \A n \in 0..2 : \A a \in BOOLEAN :
                checkpoint_mark_done(CurKey, n, a)[CurKey] =
                   [status |-> "done", row_count |-> n,
                    image_saved |-> IF a THEN 1 ELSE 0, last_error |-> NULL]
          /\ \A o \in Keys \ {CurKey} :
                /\ checkpoint_mark_pending(CurKey)[o] = checkpoints[o]
                /\ checkpoint_mark_error(CurKey, "E")[o] = checkpoints[o]
                /\ checkpoint_mark_done(CurKey, 1, TRUE)[o] = checkpoints[o]
    /\ \A k \in Keys :
          /\ checkpoints[k].status = "pending" =>
                /\ checkpoints[k].row_count = NullInt
                /\ checkpoints[k].image_saved = 0
                /\ checkpoints[k].last_error = NULL
          /\ checkpoints[k].status = "error" =>
                /\ checkpoints[k].row_count = NullInt
                /\ checkpoints[k].image_saved = 0
                /\ checkpoints[k].last_error = "E"
          /\ checkpoints[k].status = "done" =>
                /\ checkpoints[k].row_count = Len(hist.extracted[k])
                /\ checkpoints[k].last_error = NULL

\* a group that was done with two rows and a saved image is marked pending
\* again by a forced run: nothing of the done record is left
C22_Witness ==
    /\ pc = "extract"
    /\ hist.startCkpt[CurKey].status = "done"
    /\ hist.startCkpt[CurKey].row_count = 2
    /\ hist.startCkpt[CurKey].image_saved = 1
    /\ checkpoints[CurKey].status = "pending"
    /\ checkpoints[CurKey].row_count = NullInt
    /\ checkpoints[CurKey].image_saved = 0

\* the group attempts in flight: marked pending, not yet marked done or error
InFlight == IF InAttempt THEN {CurKey} ELSE {}

\* C23: during a run the number of attempts in flight never exceeds
\* MAX_CONCURRENT_GROUPS, the attempt in flight holds the pending mark of its
\* key, and a key the run marked pending is pending only while its own
\* attempt is in flight: each markPending of a key is followed by the
\* markDone or markError of that attempt before any other attempt starts
\* (a vehicle whose loop was left by an exception of a checkpoint operation
\* has no further attempt in the run).
C23_BoundedLinearizedWork ==
    /\ Cardinality(InFlight) <= MAX_CONCURRENT_GROUPS
    /\ InAttempt => checkpoints[CurKey].status = "pending"
    /\ Running =>
          \A k \in hist.attempted :
              (checkpoints[k].status = "pending"
                  /\ k[1] \notin hist.ckptRaised) => InFlight = {k}

\* the third attempt of a run is in flight and the two before it are settled
C23_Witness ==
    /\ pc = "upsert"
    /\ Cardinality(hist.attempted) = 3
    /\ \A k \in hist.attempted \ {CurKey} :
          checkpoints[k].status \in {"done", "error"}
    /\ \E k \in hist.attempted : checkpoints[k].status = "error"

\* the natural keys of a sequence of rows
KeySet(rows) == { NaturalKey(rows[i]) : i \in 1..Len(rows) }

\* C24: after a group's latest attempt has written done, the table and the
\* shard hold no row of that group that the latest extraction did not
\* return (also when it returned no row at all).
C24_NoStaleRecords ==
    \A k \in Keys :
        checkpoints[k].status = "done" =>
            /\ KeySet(TableRowsOf(k)) \subseteq
                  KeySet(convert_parts_to_dict_list(k, hist.extracted[k]))
            /\ KeySet(ShardRowsOf(k)) \subseteq
                  KeySet(convert_parts_to_dict_list(k, hist.extracted[k]))

\* C25: in every run, forced or not, collect_indices is invoked exactly once
\* for every vehicle of the listing, in listing order, also for a vehicle
\* whose groups are all done: the vehicles discovered so far are the
\* vehicles of the listing up to the current one, and the whole listing when
\* the run has returned.
C25_DiscoveryAlwaysRuns ==
    /\ (pc = "discover" /\ vidx >= 1) =>
          hist.discovered = SubSeq(vlist, 1, vidx - 1)
    /\ (pc \in {"gate", "group", "after_vehicle"} \/ InAttempt) =>
          hist.discovered = SubSeq(vlist, 1, vidx)
    /\ pc = "exited0" => hist.discovered = vlist

\* a run without force over a store where every group of v1 and v2 was
\* already done has returned and has discovered both vehicles once, in order
C25_Witness ==
    /\ pc = "exited0"
    /\ ~hist.force
    /\ \A k \in Discovered(site) : hist.startCkpt[k].status = "done"
    /\ \A v \in VehicleIds : site.groups[v] # <<>>
    /\ hist.discovered = << "v1", "v2" >>

FullAttempt ==
    << "markPending", "collect_parts", "save_parts_page", "upsert_part_rows",
       "_overwrite_group_in_csv", "markDone" >>

IsPrefix(s, t) == Len(s) <= Len(t) /\ s = SubSeq(t, 1, Len(s))

\* C27: the steps of a group attempt occur in the order markPending,
\* collect_parts, parts-page upsert, part-row upsert, shard materialization,
\* markDone; an attempt that has written done has run all of them, so every
\* done is preceded in its attempt by the upsert of the group's rows and the
\* materialization of its shard rows.
C27_AttemptOrdering ==
    /\ (hist.steps # <<>> /\ hist.steps[Len(hist.steps)] # "markError") =>
          IsPrefix(hist.steps, FullAttempt)
    /\ (hist.steps # <<>> /\ hist.steps[Len(hist.steps)] = "markError") =>
          IsPrefix(SubSeq(hist.steps, 1, Len(hist.steps) - 1), FullAttempt)
    /\ (hist.steps # <<>> /\ hist.steps[Len(hist.steps)] = "markDone") =>
          hist.steps = FullAttempt

\* the status changes a work unit may make
AllowedTransitions ==
    { << "absent", "pending" >>, << "pending", "done" >>,
      << "pending", "error" >>, << "done", "pending" >>,
      << "error", "pending" >>, << "pending", "pending" >> }

\* C28: every change of a checkpoint record made by the pipeline is one of
\* absent->pending, pending->done, pending->error, done->pending,
\* error->pending or pending->pending; a status never goes from absent, done
\* or error to done or error without passing through pending.
C28_AllowedCheckpointTransitions ==
    [][\A k \in Keys :
          checkpoints'[k] # checkpoints[k] =>
             << checkpoints[k].status, checkpoints'[k].status >>
                \in AllowedTransitions]_vars

\* a group that was in error when the run started has been marked done by
\* this run
C28_Witness ==
    \E k \in Keys :
        /\ hist.startCkpt[k].status = "error"
        /\ k \in hist.attempted
        /\ checkpoints[k].status = "done"

\* C29: materializing a group leaves every shard row of the other groups
\* present and unchanged, in the same relative order; only rows with the
\* group's own identity are removed or added.
C29_MaterializationFrame ==
    [][(pc = "csv" /\ pc' \in {"parquet", "mark_done"}) =>
          LET Other(d) == GroupKey(d) # CurKey
          IN  SelectSeq(csv', Other) = SelectSeq(csv, Other)]_vars

\* C30: every vehicle of the listing increments _vehicles_processed exactly
\* once, whichever path it takes (no groups, the gate, the group loop, an
\* exception caught at the vehicle level): while the loop is at vehicle
\* number vidx the counter is vidx - 1, and after the loop it is the number
\* of vehicles listed.
C30_VehicleCountedOnce ==
    /\ (pc = "discover" /\ vidx >= 1) => vehicles_processed = vidx - 1
    /\ (pc \in {"gate", "group", "after_vehicle"} \/ InAttempt) =>
          vehicles_processed = vidx - 1
    /\ pc = "exited0" =>
          /\ vehicles_processed = Len(site.listing)
          /\ vehicles_processed = stats.vehicles_seen

\* a run without force has returned: v1 went through the gate, whose
\* exception was caught at the vehicle level, v2 had no groups, and both
\* were counted
C30_Witness ==
    /\ pc = "exited0"
    /\ ~hist.force
    /\ hist.discFailedV = {}
    /\ site.groups["v1"] # <<>>
    /\ site.groups["v2"] = <<>>
    /\ hist.discovered = << "v1", "v2" >>
    /\ vehicles_processed = 2

\* C31: the rows append_parts_rows writes to the shard for a group are
\* determined by what the parts table holds for the group after the upsert:
\* when the table holds for the group exactly what it held at the start of
\* the run, and the shard rows of the group at the start of the run were a
\* materialization of that content, materializing the group again writes
\* the same shard rows, every column included.
C31_StoreIsSingleSourceOfTruth ==
    (pc \in {"parquet", "mark_done"} /\ cur.rows # <<>>) =>
        LET IsGroup(d) == GroupKey(d) = CurKey
            oldShard == SelectSeq(hist.startCsv, IsGroup)
            oldTable == SelectSeq(hist.startParts, IsGroup)
        IN  (/\ oldShard # <<>>
             /\ TableRowsOf(CurKey) = oldTable
             /\ StoredColumnsOf(oldShard) =
                   _fetch_group_df(hist.startParts, CurKey)) =>
            ShardRowsOf(CurKey) = oldShard

\* the text, with leading blanks skipped, begins with the letter in either
\* case followed by a dash
HasPrefixLetter(text, lower, capital) ==
    \E i \in 1..Len(text) :
        /\ \A n \in 1..(i - 1) : text[n] = " "
        /\ text[i] \in {lower, capital}
        /\ i + 1 <= Len(text)
        /\ text[i + 1] = "-"

IsEngineToken(t) == t # NoneToken /\ HasPrefixLetter(t, "e", "E")
IsFrameToken(t) == t # NoneToken /\ HasPrefixLetter(t, "f", "F")

\* the group type the classification rule gives a list row
ClassOf(it, hint) ==
    IF IsEngineToken(it.table_no) \/ IsEngineToken(it.group_code)
    THEN "ENGINE"
    ELSE IF IsFrameToken(it.table_no) \/ IsFrameToken(it.group_code)
         THEN "FRAME"
         ELSE hint

\* the list rows that carry a group code
WithCode(rows) ==
    LET Has(it) == it.group_code \notin {<<>>, NoneToken}
    IN  SelectSeq(rows, Has)

\* C32: _infer_group_type is total and gives ENGINE or FRAME: ENGINE when the
\* trimmed, upper-cased table_no or group_code starts with "E-", otherwise
\* FRAME when either starts with "F-", otherwise the table's hint; a row
\* with one "E-" token and one "F-" token is ENGINE.  Stated on the indices
\* collect_indices builds from the rows of the two list tables.
C32_GroupTypeClassification ==
    (pc \in {"gate", "after_vehicle"}) =>
        LET e == WithCode(site.engine_rows)
            f == WithCode(site.frame_rows)
        IN  /\ Len(indices) = Len(e) + Len(f)
            /\ \A i \in 1..Len(indices) :
                  indices[i].group_type \in {"ENGINE", "FRAME"}
            /\ \A i \in 1..Len(e) :
                  indices[i].group_type = ClassOf(e[i], "ENGINE")
            /\ \A i \in 1..Len(f) :
                  indices[Len(e) + i].group_type = ClassOf(f[i], "FRAME")

\* a row of the FRAME table with table_no "F-1" and group_code " e-1 " has
\* been classified ENGINE, and a row of the ENGINE table with "f-1" FRAME
C32_Witness ==
    /\ pc = "gate"
    /\ Len(indices) = 2
    /\ site.frame_rows =
          << [table_no |-> << "F", "-", "1" >>,
              group_code |-> << " ", "e", "-", "1", " " >>] >>
    /\ indices[2].group_type = "ENGINE"
    /\ site.engine_rows =
          << [table_no |-> <<>>, group_code |-> << "f", "-", "1" >>] >>
    /\ indices[1].group_type = "FRAME"

\* C33: within a single run each work-unit key is attempted (marked pending
\* and extracted) at most once, also when the group list of a vehicle holds
\* the same key more than once.
C33_KeyAttemptedAtMostOnce == hist.twice = {}

\* C34: between group iterations done + skipped + failed never exceeds
\* groups_seen; as long as no exception has escaped a group loop of the run,
\* the three counters add up to groups_seen minus the entries still to come
\* while a vehicle's loop is at entry j, and to groups_seen after each
\* vehicle and at the end of the run; a vehicle that does not get past the
\* gate adds to none of the four counters.
C34_StatisticsConservation ==
    LET settledGroups == stats.groups_done + stats.groups_skipped
                            + stats.groups_failed
    IN  /\ settledGroups <= stats.groups_seen
        /\ ((pc = "group" \/ InAttempt) /\ hist.ckptRaised = {}) =>
              settledGroups = stats.groups_seen - (Len(indices) - (j - 1))
        /\ (pc \in {"after_vehicle", "discover", "exited0"}
                /\ hist.ckptRaised = {}) =>
              settledGroups = stats.groups_seen
        /\ (Running /\ hist.looped = {}) => stats.groups_seen = 0

\* a forced run has ended with three groups done and one failed out of four
C34_Witness ==
    /\ pc = "exited0"
    /\ stats.groups_seen = 4
    /\ stats.groups_done = 3
    /\ stats.groups_failed = 1
    /\ stats.groups_skipped = 0

\* C35: the step that marks a checkpoint done records as row_count the
\* number of rows the parts table holds for the group at that moment, which
\* is also the number of rows of the group in the shard.
C35_RowCountIsTableCount ==
    [][(pc = "mark_done" /\ pc' = "group"
          /\ disturbances' = disturbances) =>
          /\ checkpoints'[CurKey].status = "done"
          /\ checkpoints'[CurKey].row_count = Len(TableRowsOf(CurKey))
          /\ checkpoints'[CurKey].row_count = Len(ShardRowsOf(CurKey))]_vars

\* the key of the group attempt that has just ended
LastKey == << vlist[vidx], indices[j - 1] >>

\* the group attempt that has just ended, ended in the error handler
AttemptFailed ==
    /\ pc \in {"group", "after_vehicle"}
    /\ hist.steps # <<>>
    /\ hist.steps[Len(hist.steps)] = "markError"

\* C36: a group attempt that ends with checkpoint status "error" leaves the
\* parts_pages table, the parts table and the shards exactly as they were
\* before the attempt began; only the checkpoint record of its key differs.
C36_StateUnchangedOnError ==
    AttemptFailed =>
        /\ checkpoints[LastKey].status = "error"
        /\ parts_pages = hist.attemptStart.parts_pages
        /\ parts = hist.attemptStart.parts
        /\ csv = hist.attemptStart.csv
        /\ parquet = hist.attemptStart.parquet
        /\ \A k \in Keys \ {LastKey} :
              checkpoints[k] = hist.attemptStart.checkpoints[k]

\* C37: an exception of a checkpoint operation does not end the run. When
\* it leaves a vehicle's group loop (checkpoint_status or
\* checkpoint_mark_pending at the head of the loop, checkpoint_mark_error
\* inside the group's handler) or is caught by the group's handler
\* (checkpoint_mark_done), the vehicle is still counted exactly once, the
\* loop goes on to the next vehicle of the listing, and the run returns
\* normally with every vehicle of the listing discovered and counted; a
\* group whose checkpoint_mark_done raised is marked error.
C37_CheckpointFailureDoesNotAbort ==
    /\ hist.ckptRaised # {} =>
          /\ pc = "exited1" => hist.closeRaised
          /\ pc = "after_vehicle" => vehicles_processed = vidx - 1
          /\ pc \in {"discover", "gate", "group"} \/ InAttempt =>
                /\ vehicles_processed = vidx - 1
                /\ \A v \in hist.ckptRaised :
                      \E i \in 1..(vidx - 1) : vlist[i] = v
          /\ pc = "exited0" =>
                /\ vehicles_processed = Len(vlist)
                /\ hist.discovered = vlist
    /\ hist.markDoneRaised # {} =>
          /\ pc = "exited1" => hist.closeRaised
          /\ (Running /\ pc # "collect") => vehicles_processed = vidx - 1
          /\ AttemptFailed /\ LastKey \in hist.markDoneRaised =>
                checkpoints[LastKey].status = "error"
          /\ pc = "exited0" =>
                /\ vehicles_processed = Len(vlist)
                /\ hist.discovered = vlist

\* the status read of the first vehicle's loop raised; the second vehicle
\* was processed after it and its group is done
C37_Witness ==
    /\ pc = "exited0"
    /\ hist.ckptRaised = {"v1"}
    /\ vehicles_processed = 2
    /\ << "v2", "E1" >> \in hist.attempted
    /\ checkpoints[<< "v2", "E1" >>].status = "done"
    /\ \A g \in GroupIds : checkpoints[<< "v1", g >>] = Absent

(***************************************************************************)
(* The catalogue listing: collect_vehicles turns the rows of the catalogue *)
(* table into Vehicle objects, _collect_vehicles saves them                 *)
(***************************************************************************)
\* names and model codes as the catalogue table shows them, character by
\* character; <<>> is a missing or empty cell
NameCells ==
    { << "A", "b" >>, << "a", "b" >>, << "A", "+", "b" >>,
      << " ", "A", "b" >>, <<>> }

ModelCodeCells == { << "1" >>, << "2" >>, << " ", "1" >>, <<>> }

CatalogueItems == [name : NameCells, modelCode : ModelCodeCells]

VehiclesData ==
    UNION { [1..n -> CatalogueItems] : n \in 0..MaxItems }

\* str.lower()
lower(s) == [i \in 1..Len(s) |-> IF s[i] = "A" THEN "a" ELSE s[i]]

Alphanumeric == { "a", "b", "1", "2" }

\* runs of characters that are not alphanumeric become one hyphen
RECURSIVE hyphenate(_)
hyphenate(s) ==
    IF s = <<>> THEN <<>>
    ELSE IF Head(s) \in Alphanumeric THEN << Head(s) >> \o hyphenate(Tail(s))
    ELSE LET rest == hyphenate(Tail(s))
         IN  IF rest # <<>> /\ Head(rest) = "-" THEN rest
             ELSE << "-" >> \o rest

RECURSIVE strip_hyphens(_)
strip_hyphens(s) ==
    IF s # <<>> /\ Head(s) = "-" THEN strip_hyphens(Tail(s))
    ELSE IF s # <<>> /\ s[Len(s)] = "-"
         THEN strip_hyphens(SubSeq(s, 1, Len(s) - 1))
         ELSE s

\* slugify(text, max_length): lower case, separators to hyphens, truncated
slugify(text, max_length) ==
    LET slug == strip_hyphens(hyphenate(lower(text)))
    IN  IF Len(slug) > max_length
        THEN strip_hyphens(SubSeq(slug, 1, max_length))
        ELSE slug

slug_max_length == 50

slugify_name(name) == slugify(name, slug_max_length)

\* the loop of collect_vehicles over vehicles_data
RECURSIVE collect_vehicles_loop(_, _, _)
collect_vehicles_loop(vehicles_data, seen_models, acc) ==
    IF vehicles_data = <<>> THEN acc
    ELSE LET item == Head(vehicles_data)
             name == strip(item.name)
             model_code == strip(item.modelCode)
         IN  IF name = <<>> \/ model_code = <<>>
             THEN collect_vehicles_loop(Tail(vehicles_data), seen_models, acc)
             ELSE IF model_code \in seen_models
             THEN collect_vehicles_loop(Tail(vehicles_data), seen_models, acc)
             ELSE collect_vehicles_loop(
                      Tail(vehicles_data), seen_models \cup {model_code},
                      Append(acc, [vehicle_id |-> slugify_name(name),
                                   vehicle_name |-> name,
                                   model_code |-> model_code]))

collect_vehicles(vehicles_data) == collect_vehicles_loop(vehicles_data, {}, <<>>)

\* save_vehicle: INSERT OR REPLACE INTO vehicles, keyed by vehicle_id
save_vehicle(tbl, vehicle) == tbl \cup {vehicle.vehicle_id}

RECURSIVE save_vehicles(_, _)
save_vehicles(tbl, vs) ==
    IF vs = <<>> THEN tbl
    ELSE save_vehicles(save_vehicle(tbl, Head(vs)), Tail(vs))

CatalogueInit ==
    /\ checkpoints = [k \in Keys |-> Absent]
    /\ parts = <<>>
    /\ parts_pages = [k \in Keys |-> NULL]
    /\ vehicles = {}
    /\ csv = <<>>
    /\ parquet = <<>>
    /\ milestones = {}
    /\ \E d \in VehiclesData : site = [vehicles_data |-> d]
    /\ pc = "idle"
    /\ force_reprocess = FALSE /\ save_parquet = FALSE
    /\ vlist = <<>> /\ vidx = 0
    /\ indices = <<>> /\ j = 0
    /\ cur = NoResult
    /\ stats = ZeroStats
    /\ vehicles_processed = 0 /\ milestone_batch = 0
    /\ exit_code = "none"
    /\ runs = 0 /\ disturbances = 0
    /\ hist = NoHist

\* _collect_vehicles on a catalogue table with rows: the Vehicle objects are
\* built, counted and saved, and handed to the vehicle loop
CollectCatalogue ==
    /\ pc = "collect"
    /\ site.vehicles_data # <<>>
    /\ vlist' = collect_vehicles(site.vehicles_data)
    /\ vehicles' = save_vehicles(vehicles, vlist')
    /\ stats' = [stats EXCEPT !.vehicles_seen = Len(vlist')]
    /\ vidx' = 1
    /\ pc' = "discover"
    /\ UNCHANGED << checkpoints, parts, parts_pages, csv, parquet, site,
                    force_reprocess, save_parquet, indices, j, cur,
                    vehicles_processed, milestone_batch, milestones,
                    exit_code, budget, hist >>

\* "if not vehicles_data: raise Exception": the run ends with code 1
CollectCatalogueEmpty ==
    /\ pc = "collect"
    /\ site.vehicles_data = <<>>
    /\ pc' = "exited1"
    /\ exit_code' = ExitCode(TRUE)
    /\ hist' = [hist EXCEPT !.faulted = TRUE]
    /\ UNCHANGED << persistent, site, force_reprocess, save_parquet, vlist,
                    vidx, indices, j, cur, stats, vehicles_processed,
                    milestone_batch, milestones, budget >>

CatalogueNext ==
    \/ \E f \in BOOLEAN : StartRun(f, FALSE)
    \/ CollectCatalogue
    \/ CollectCatalogueEmpty

CatalogueSpec == CatalogueInit /\ [][CatalogueNext]_vars

\* C38: the vehicles handed to the vehicle loop have pairwise distinct
\* vehicle_id and pairwise distinct model_code, so that every one of them has
\* a row of its own in the vehicles table.
C38_DistinctVehicleIdentity ==
    pc = "discover" =>
        /\ \A a, b \in 1..Len(vlist) :
              vlist[a].model_code = vlist[b].model_code => a = b
        /\ \A a, b \in 1..Len(vlist) :
              vlist[a].vehicle_id = vlist[b].vehicle_id => a = b
        /\ Cardinality(vehicles) = Len(vlist)

\* run() has been left by a return or by an exception
RunLeft == pc \in {"exited0", "exited1", "interrupted"}

\* C39: on every way out of run() after launch_browser (normal completion,
\* a fatal listing failure, an exception or interrupt from the vehicle
\* loop) browser.close() is invoked and then session.close(), each once,
\* and session.close() is invoked also when browser.close() raises.
C39_ResourceRelease ==
    RunLeft =>
        /\ Len(hist.released) = 2
        /\ hist.released[1].call = "browser.close"
        /\ hist.released[2].call = "session.close"
        /\ hist.released[1].raised = hist.closeRaised

\* the vehicle loop ended, browser.close() raised and session.close() was
\* still invoked
C39_Witness ==
    /\ pc = "exited1"
    /\ hist.closeRaised
    /\ vehicles_processed = Len(vlist) /\ Len(vlist) = 2
    /\ hist.released =
          << [call |-> "browser.close", raised |-> TRUE],
             [call |-> "session.close", raised |-> FALSE] >>

====
